---- MODULE Spec2Model ----
(***************************************************************************)
(* Empirical Bayes spatial smoothing of points-per-attempt over a grid of  *)
(* court cells: do_eb of code/empirical_bayes.py.                          *)
(*                                                                         *)
(* Numbers.  Rates, variances and weights are exact rationals <<n, d>>     *)
(* in lowest terms with d > 0; <<0, 0>> stands for NaN and <<1, 0>>,       *)
(* <<-1, 0>> for +inf, -inf (what a numpy division by zero yields).        *)
(* Coordinates are integers in units of 0.005 court units; distances are   *)
(* fixed-point integers in units of 0.0001 (the square root is truncated   *)
(* to that resolution); the neighbourhood radii are exact rationals in     *)
(* units of 0.0001.                                                        *)
(***************************************************************************)
EXTENDS Integers, Sequences, FiniteSets, TLC

VARIABLES basket_coords, grid_data, pc, active_grids,
          phi_values, w_hat_values, theta_values, loc, warned

vars == <<basket_coords, grid_data, pc, active_grids,
          phi_values, w_hat_values, theta_values, loc, warned>>

----------------------------------------------------------------------------
(* Rational arithmetic                                                     *)

Abs(n) == IF n < 0 THEN -n ELSE n

Sgn(n) == IF n < 0 THEN -1 ELSE IF n > 0 THEN 1 ELSE 0

RECURSIVE GCD(_, _)
GCD(a, b) == IF b = 0 THEN a ELSE GCD(b, a % b)

NaN == <<0, 0>>

IsFinite(a) == a[2] # 0

R(n, d) ==
    IF d = 0 THEN <<Sgn(n), 0>>
    ELSE LET g == GCD(Abs(n), Abs(d))
         IN  <<(Sgn(d) * n) \div g, Abs(d) \div g>>

RInt(n) == <<n, 1>>

RAdd(a, b) == R(a[1] * b[2] + b[1] * a[2], a[2] * b[2])

RSub(a, b) == R(a[1] * b[2] - b[1] * a[2], a[2] * b[2])

RMul(a, b) == R(a[1] * b[1], a[2] * b[2])

RDiv(a, b) == R(a[1] * b[2], a[2] * b[1])

RLe(a, b) == a[1] * b[2] <= b[1] * a[2]

RLt(a, b) == a[1] * b[2] < b[1] * a[2]

RMax(a, b) == IF RLe(a, b) THEN b ELSE a

RMin(a, b) == IF RLe(a, b) THEN a ELSE b

Zero == RInt(0)

One == RInt(1)

----------------------------------------------------------------------------
(* Fixed-point square root                                                 *)

RECURSIVE ISqrtIn(_, _, _)
ISqrtIn(S, lo, hi) ==
    IF lo = hi THEN lo
    ELSE LET mid == (lo + hi + 1) \div 2
         IN  IF mid * mid <= S THEN ISqrtIn(S, mid, hi)
                               ELSE ISqrtIn(S, lo, mid - 1)

ISqrt(S) == ISqrtIn(S, 0, 46340)

\* Square root of a squared length S (coordinate units squared), truncated
\* to distance units.  One coordinate unit is 50 distance units, so
\* q = floor(50 * sqrt(S)) = floor(sqrt(2500 * S)); exact iff nothing was cut.
SqrtFix(S) ==
    LET k == ISqrt(S)
        r == S - k * k
        j == CHOOSE i \in 0 .. 49 :
                /\ 100 * k * i + i * i <= 2500 * r
                /\ \/ i = 49
                   \/ 100 * k * (i + 1) + (i + 1) * (i + 1) > 2500 * r
    IN  [q     |-> 50 * k + j,
         exact |-> 2500 * r = 100 * k * j + j * j]

----------------------------------------------------------------------------
(* Inputs: the table prepare_data_for_eb returns                           *)

\* Most shots a cell of the generic tables holds.
MaxAttempts == 2

\* A shot is worth action * made points, action in {2, 3}, made in {0, 1}.
PointsOf(a) ==
    {2 * ij[1] + 3 * ij[2] : ij \in {x \in (0 .. a) \X (0 .. a) : x[1] + x[2] <= a}}

CellStats == UNION {{<<a, p>> : p \in PointsOf(a)} : a \in 0 .. MaxAttempts}

\* PPA as prepare_data_for_eb leaves it: points / attempts, 0 without attempts.
PPA(attempts, points) ==
    IF attempts > 0 THEN RDiv(RInt(points), RInt(attempts)) ELSE Zero

\* A square cell of side 0.2 (40 coordinate units) around the centre c.
GridRow(i, c, st) ==
    [index    |-> i,
     left     |-> c[1] - 20, right |-> c[1] + 20,
     bottom   |-> c[2] - 20, top   |-> c[2] + 20,
     attempts |-> st[1],
     points   |-> st[2],
     PPA      |-> PPA(st[1], st[2])]

\* The basket of define_input, (0, 12.425), in coordinate units.
DefaultBasket == <<0, 2485>>

\* Cell centres (coordinate units) and the basket they are measured from.
Layouts ==
    << \* (0,1), (0,1.2), (50,50) around (0,0): two close cells, one outlier
       [basket |-> <<0, 0>>,
        cells  |-> << <<0, 200>>, <<0, 240>>, <<10000, 10000>> >>],
       \* distances 1.0, 1.2, 1.5 below the basket: a chain in the band test
       [basket |-> DefaultBasket,
        cells  |-> << <<0, 2285>>, <<0, 2245>>, <<0, 2185>> >>],
       \* distance 2 on both sides of the basket, and one cell beside the first
       [basket |-> DefaultBasket,
        cells  |-> << <<400, 2485>>, <<-400, 2485>>, <<400, 2525>> >>],
       \* distances 9.0, 11.3, 12.0: radii that grow beyond 9.144
       [basket |-> DefaultBasket,
        cells  |-> << <<1800, 2485>>, <<2260, 2485>>, <<2400, 2485>> >>] >>

Table(L, stats) ==
    [i \in DOMAIN L.cells |-> GridRow(i - 1, L.cells[i], stats[i])]

\* E2E scenario A: attempts/points 10/15, 8/10, 5/5 on the first layout.
ScenarioA == Table(Layouts[1], << <<10, 15>>, <<8, 10>>, <<5, 5>> >>)

\* A csv whose action column holds a 4 passes the validation (action > 0):
\* a cell with more than 3 points per attempt, on the second layout.
FourPointer == Table(Layouts[2], << <<1, 4>>, <<1, 3>>, <<0, 0>> >>)

NoLocals ==
    [idx |-> -1, branch |-> "none", neighborhood |-> <<>>,
     equidistant_range |-> NaN, close_range |-> NaN,
     gamma_i |-> NaN, n_bar_j |-> NaN, numerator |-> NaN, denominator |-> -1,
     phi_i |-> NaN, w_hat_i |-> NaN, theta_i |-> NaN, note |-> FALSE]

Init ==
    /\ \E l \in DOMAIN Layouts :
          /\ basket_coords = Layouts[l].basket
          /\ \/ \E stats \in [DOMAIN Layouts[l].cells -> CellStats] :
                   grid_data = Table(Layouts[l], stats)
             \/ l = 1 /\ grid_data = ScenarioA
             \/ l = 2 /\ grid_data = FourPointer
    /\ pc = "start"
    /\ active_grids = <<>>
    /\ phi_values = <<>>
    /\ w_hat_values = <<>>
    /\ theta_values = <<>>
    /\ loc = NoLocals
    /\ warned = FALSE

----------------------------------------------------------------------------
(* do_eb: centroids, distance to the basket, the active cells              *)

dist_to_basket(x, y, basket) ==
    SqrtFix((x - basket[1]) * (x - basket[1]) + (y - basket[2]) * (y - basket[2])).q

Annotated(row, basket) ==
    LET x == (row.left + row.right) \div 2
        y == (row.bottom + row.top) \div 2
    IN  row @@ [x |-> x, y |-> y, dist_to_basket |-> dist_to_basket(x, y, basket)]

IsActive(row) == row.attempts > 0

DoEbAnnotate ==
    /\ pc = "start"
    /\ \E annotated \in {[i \in DOMAIN grid_data |->
                               Annotated(grid_data[i], basket_coords)]} :
       \E active \in {SelectSeq(annotated, IsActive)} :
           /\ grid_data' = annotated
           /\ warned' = (\E i \in DOMAIN annotated :
                            annotated[i].points > annotated[i].attempts * 3)
           /\ active_grids' = active
           /\ pc' = IF active = <<>> THEN "raised" ELSE "loop"
    /\ UNCHANGED <<basket_coords, phi_values, w_hat_values, theta_values, loc>>

----------------------------------------------------------------------------
(* get_neighborhood_params                                                 *)

\* 9.144, 0.3658 and 1.524 in distance units (0.0001).
NEAR_THRESHOLD == 91440

BASE_BAND == 3658

BASE_PROX == 15240

\* 0.1524 and 0.3048 per unit of distance beyond the threshold.
BAND_SLOPE == R(1524, 10000)

PROX_SLOPE == R(3048, 10000)

\* A slip: the excess taken as threshold minus distance.
equidistant_range_SignSlip(d) ==
    IF d < NEAR_THRESHOLD
    THEN RInt(BASE_BAND)
    ELSE LET extra_feet == NEAR_THRESHOLD - d
         IN  RAdd(RInt(BASE_BAND), RMul(BAND_SLOPE, RInt(extra_feet)))

equidistant_range(d) ==
    IF d < NEAR_THRESHOLD
    THEN RInt(BASE_BAND)
    ELSE LET extra_feet == d - NEAR_THRESHOLD
         IN  RAdd(RInt(BASE_BAND), RMul(BAND_SLOPE, RInt(extra_feet)))

\* A slip: the proximity radius grown with the slope of the band.
close_range_BandSlope(d) ==
    IF d < NEAR_THRESHOLD
    THEN RInt(BASE_PROX)
    ELSE LET extra_feet == d - NEAR_THRESHOLD
         IN  RAdd(RInt(BASE_PROX), RMul(BAND_SLOPE, RInt(extra_feet)))

close_range(d) ==
    IF d < NEAR_THRESHOLD
    THEN RInt(BASE_PROX)
    ELSE LET extra_feet == d - NEAR_THRESHOLD
         IN  RAdd(RInt(BASE_PROX), RMul(PROX_SLOPE, RInt(extra_feet)))

\* A slip: the band radius taken from the candidate's distance.
InBand_CandidateRadius(row, g) ==
    RLe(RInt(Abs(g.dist_to_basket - row.dist_to_basket)),
        equidistant_range(g.dist_to_basket))

\* A slip: the difference of the distances taken without abs().
InBand_Signed(row, g) ==
    RLe(RInt(g.dist_to_basket - row.dist_to_basket),
        equidistant_range(row.dist_to_basket))

\* abs(gdf['dist_to_basket'] - d) <= equidistant_range
InBand(row, g) ==
    RLe(RInt(Abs(g.dist_to_basket - row.dist_to_basket)),
        equidistant_range(row.dist_to_basket))

\* A slip: the proximity test left out.
InReach_Omitted(row, g) == TRUE

\* cdist([[row.x, row.y]], gdf[['x', 'y']])[0] <= close_range.  A distance
\* that the truncation cut lies strictly between q and q + 1.
InReach(row, g) ==
    LET c == SqrtFix((g.x - row.x) * (g.x - row.x) + (g.y - row.y) * (g.y - row.y))
        r == close_range(row.dist_to_basket)
    IN  IF c.exact THEN RLe(RInt(c.q), r) ELSE RLt(RInt(c.q), r)

get_neighborhood_params(row, gdf) ==
    LET keep(g) == InBand(row, g) /\ InReach(row, g) /\ g.attempts > 0
    IN  SelectSeq(gdf, keep)

----------------------------------------------------------------------------
(* The body of the loop over the active cells                              *)

RECURSIVE SumAttempts(_)
SumAttempts(nb) ==
    IF nb = <<>> THEN 0 ELSE Head(nb).attempts + SumAttempts(Tail(nb))

RECURSIVE SumPoints(_)
SumPoints(nb) ==
    IF nb = <<>> THEN 0 ELSE Head(nb).points + SumPoints(Tail(nb))

RECURSIVE SumPPA(_)
SumPPA(nb) ==
    IF nb = <<>> THEN Zero ELSE RAdd(Head(nb).PPA, SumPPA(Tail(nb)))

\* A slip: the makes divided by the mean of the attempts, not their sum.
gamma_i_PerMean(nb) ==
    LET total_shots == SumAttempts(nb)
        total_makes == SumPoints(nb)
    IN  IF total_shots > 0
        THEN RDiv(RInt(total_makes), RDiv(RInt(total_shots), RInt(Len(nb))))
        ELSE Zero

\* A slip: the unweighted mean of the neighbours' rates for the pooled rate.
gamma_i_MeanOfRates(nb) == RDiv(SumPPA(nb), RInt(Len(nb)))

\* A slip: the makes of a neighbour that already has a smoothed rate taken
\* from that rate instead of its points.
RECURSIVE SmoothedMakes(_)
SmoothedMakes(nb) ==
    IF nb = <<>> THEN Zero
    ELSE LET g == Head(nb)
             m == IF "EB_PPA" \in DOMAIN g
                  THEN RMul(g.EB_PPA, RInt(g.attempts))
                  ELSE RInt(g.points)
         IN  RAdd(m, SmoothedMakes(Tail(nb)))

gamma_i_Smoothed(nb) ==
    LET total_shots == SumAttempts(nb)
    IN  IF total_shots > 0 THEN RDiv(SmoothedMakes(nb), RInt(total_shots)) ELSE Zero

\* gamma_i = total_makes / total_shots if total_shots > 0 else 0
gamma_i(nb) ==
    LET total_shots == SumAttempts(nb)
        total_makes == SumPoints(nb)
    IN  IF total_shots > 0 THEN RDiv(RInt(total_makes), RInt(total_shots)) ELSE Zero

\* neighborhood['attempts'].mean()
n_bar_j(nb) == RDiv(RInt(SumAttempts(nb)), RInt(Len(nb)))

\* points / attempts, with inf and NaN replaced by 0
gamma_j(g) ==
    LET q == RDiv(RInt(g.points), RInt(g.attempts))
    IN  IF IsFinite(q) THEN q ELSE Zero

\* A slip: the deviations taken from the pooled rate of the neighbourhood.
RECURSIVE DeviationsFrom(_, _)
DeviationsFrom(nb, centre) ==
    IF nb = <<>> THEN Zero
    ELSE LET g   == Head(nb)
             dev == RSub(g.PPA, centre)
         IN  RAdd(RMul(RInt(g.attempts), RMul(dev, dev)),
                  DeviationsFrom(Tail(nb), centre))

numerator_FromRegional(nb) == DeviationsFrom(nb, gamma_i(nb))

\* np.sum(n_j * (r_j - gamma_j) ** 2)
RECURSIVE numerator(_)
numerator(nb) ==
    IF nb = <<>> THEN Zero
    ELSE LET g   == Head(nb)
             dev == RSub(g.PPA, gamma_j(g))
         IN  RAdd(RMul(RInt(g.attempts), RMul(dev, dev)), numerator(Tail(nb)))

\* np.sum(n_j)
denominator(nb) == SumAttempts(nb)

\* (numerator / denominator) - (gamma_i / n_bar_j), before the floor
Moments(nb) ==
    RSub(RDiv(numerator(nb), RInt(denominator(nb))), RDiv(gamma_i(nb), n_bar_j(nb)))

\* A slip: the floor at 0 left out.
phi_i_NoFloor(nb) ==
    IF denominator(nb) > 0 /\ RLt(Zero, n_bar_j(nb))
    THEN Moments(nb)
    ELSE Zero

phi_i(nb) ==
    IF denominator(nb) > 0 /\ RLt(Zero, n_bar_j(nb))
    THEN RMax(Zero, Moments(nb))
    ELSE Zero

\* A slip: the guard on the divisor and the clamp left out.
w_hat_i_Unguarded(phi, gamma, n_i) ==
    RDiv(phi, RAdd(phi, RDiv(gamma, RInt(n_i))))

w_hat_i(phi, gamma, n_i) ==
    IF n_i > 0 /\ RAdd(phi, RDiv(gamma, RInt(n_i))) # Zero
    THEN RMax(Zero, RMin(One, RDiv(phi, RAdd(phi, RDiv(gamma, RInt(n_i))))))
    ELSE Zero

\* A slip: the two weights swapped.
theta_i_Swapped(w, r, gamma) == RAdd(RMul(w, gamma), RMul(RSub(One, w), r))

\* theta_i = w_hat_i * r_i + (1 - w_hat_i) * gamma_i
theta_i(w, r, gamma) == RAdd(RMul(w, r), RMul(RSub(One, w), gamma))

\* if theta_i > 3 or theta_i < 0: print("Note - Grid ...")
OutOfRange(theta) == RLt(RInt(3), theta) \/ RLt(theta, Zero)

\* A slip: the new entries put at the front of the lists.
Record_Prepend(it) ==
    /\ loc' = it
    /\ phi_values' = <<it.phi_i>> \o phi_values
    /\ w_hat_values' = <<it.w_hat_i>> \o w_hat_values
    /\ theta_values' = <<it.theta_i>> \o theta_values

\* What an iteration leaves behind: its locals and one more entry in each list.
Record(it) ==
    /\ loc' = it
    /\ phi_values' = Append(phi_values, it.phi_i)
    /\ w_hat_values' = Append(w_hat_values, it.w_hat_i)
    /\ theta_values' = Append(theta_values, it.theta_i)

DoEbIterate ==
    /\ pc = "loop"
    /\ Len(phi_values) < Len(active_grids)
    /\ \E row \in {active_grids[Len(phi_values) + 1]} :
       \E nb \in {get_neighborhood_params(row, active_grids)} :
       \E band \in {equidistant_range(row.dist_to_basket)} :
       \E reach \in {close_range(row.dist_to_basket)} :
          IF nb = <<>>
          THEN Record([NoLocals EXCEPT
                          !.idx = row.index, !.branch = "fallback",
                          !.equidistant_range = band, !.close_range = reach,
                          !.phi_i = Zero, !.w_hat_i = Zero, !.theta_i = row.PPA])
          ELSE \E gamma \in {gamma_i(nb)} :
               \E phi \in {phi_i(nb)} :
               \E w \in {w_hat_i(phi, gamma, row.attempts)} :
                  Record([idx |-> row.index, branch |-> "normal",
                          neighborhood |-> nb,
                          equidistant_range |-> band, close_range |-> reach,
                          gamma_i |-> gamma, n_bar_j |-> n_bar_j(nb),
                          numerator |-> numerator(nb),
                          denominator |-> denominator(nb),
                          phi_i |-> phi, w_hat_i |-> w,
                          theta_i |-> theta_i(w, row.PPA, gamma),
                          note |-> OutOfRange(theta_i(w, row.PPA, gamma))])
    /\ UNCHANGED <<basket_coords, grid_data, pc, active_grids, warned>>

----------------------------------------------------------------------------
(* After the loop: the three columns, the merge, the zero fill             *)

\* active_grids[col] = values, row by row
WithColumns(gdf, phis, ws, thetas) ==
    [k \in DOMAIN gdf |->
        gdf[k] @@ [CellVar |-> phis[k], ShrinkWt |-> ws[k], EB_PPA |-> thetas[k]]]

\* A slip: how='inner', which drops the rows without a match.
RECURSIVE Merge_Inner(_, _)
Merge_Inner(left, right) ==
    IF left = <<>> THEN <<>>
    ELSE LET row   == Head(left)
             same(g) == g.index = row.index
             hits  == SelectSeq(right, same)
         IN  [k \in DOMAIN hits |->
                 row @@ [CellVar  |-> hits[k].CellVar,
                         ShrinkWt |-> hits[k].ShrinkWt,
                         EB_PPA   |-> hits[k].EB_PPA]]
             \o Merge_Inner(Tail(left), right)

\* grid_data.merge(active_grids[[...]], left_index, right_index, how='left'):
\* every left row once per right row of its index, with NaN when there is none.
RECURSIVE Merge(_, _)
Merge(left, right) ==
    IF left = <<>> THEN <<>>
    ELSE LET row   == Head(left)
             same(g) == g.index = row.index
             hits  == SelectSeq(right, same)
             rows  == IF hits = <<>>
                      THEN << row @@ [CellVar |-> NaN, ShrinkWt |-> NaN, EB_PPA |-> NaN] >>
                      ELSE [k \in DOMAIN hits |->
                              row @@ [CellVar  |-> hits[k].CellVar,
                                      ShrinkWt |-> hits[k].ShrinkWt,
                                      EB_PPA   |-> hits[k].EB_PPA]]
         IN  rows \o Merge(Tail(left), right)

\* A slip: the column left as the merge produced it.
WhereAttempted_Kept(value, attempts) == value

\* column.where(grid_data['attempts'] > 0, 0)
WhereAttempted(value, attempts) == IF attempts > 0 THEN value ELSE Zero

ZeroFilled(row) ==
    [row EXCEPT !.CellVar  = WhereAttempted(row.CellVar, row.attempts),
                !.ShrinkWt = WhereAttempted(row.ShrinkWt, row.attempts),
                !.EB_PPA   = WhereAttempted(row.EB_PPA, row.attempts)]

DoEbAssemble ==
    /\ pc = "loop"
    /\ Len(phi_values) = Len(active_grids)
    /\ \E active \in {WithColumns(active_grids, phi_values, w_hat_values,
                                   theta_values)} :
       \E merged \in {Merge(grid_data, active)} :
           /\ active_grids' = active
           /\ grid_data' = [i \in DOMAIN merged |-> ZeroFilled(merged[i])]
    /\ pc' = "done"
    /\ UNCHANGED <<basket_coords, phi_values, w_hat_values, theta_values, loc, warned>>

Next == DoEbAnnotate \/ DoEbIterate \/ DoEbAssemble

Spec == Init /\ [][Next]_vars

----------------------------------------------------------------------------
(* The loop of do_eb with its iterations taken in any order: every          *)
(* iteration stores its three values in the row it was run for.             *)

HasResult(g) == "EB_PPA" \in DOMAIN g

Stored(gdf, k, it) ==
    [gdf EXCEPT ![k] = @ @@ [CellVar  |-> it.phi_i,
                             ShrinkWt |-> it.w_hat_i,
                             EB_PPA   |-> it.theta_i]]

DoEbIterateAny ==
    /\ pc = "loop"
    /\ \E k \in DOMAIN active_grids :
       /\ ~HasResult(active_grids[k])
       /\ \E row \in {active_grids[k]} :
          \E nb \in {get_neighborhood_params(row, active_grids)} :
          \E band \in {equidistant_range(row.dist_to_basket)} :
          \E reach \in {close_range(row.dist_to_basket)} :
          \E gamma \in {gamma_i(nb)} :
          \E phi \in {phi_i(nb)} :
          \E w \in {w_hat_i(phi, gamma, row.attempts)} :
          \E it \in {IF nb = <<>>
                     THEN [NoLocals EXCEPT
                              !.idx = row.index, !.branch = "fallback",
                              !.equidistant_range = band, !.close_range = reach,
                              !.phi_i = Zero, !.w_hat_i = Zero, !.theta_i = row.PPA]
                     ELSE [idx |-> row.index, branch |-> "normal",
                           neighborhood |-> nb,
                           equidistant_range |-> band, close_range |-> reach,
                           gamma_i |-> gamma, n_bar_j |-> n_bar_j(nb),
                           numerator |-> numerator(nb),
                           denominator |-> denominator(nb),
                           phi_i |-> phi, w_hat_i |-> w,
                           theta_i |-> theta_i(w, row.PPA, gamma),
                           note |-> OutOfRange(theta_i(w, row.PPA, gamma))]} :
             /\ Record(it)
             /\ active_grids' = Stored(active_grids, k, it)
    /\ UNCHANGED <<basket_coords, grid_data, pc, warned>>

DoEbGather ==
    /\ pc = "loop"
    /\ \A k \in DOMAIN active_grids : HasResult(active_grids[k])
    /\ \E merged \in {Merge(grid_data, active_grids)} :
           grid_data' = [i \in DOMAIN merged |-> ZeroFilled(merged[i])]
    /\ pc' = "done"
    /\ UNCHANGED <<basket_coords, active_grids, phi_values, w_hat_values,
                   theta_values, loc, warned>>

NextAnyOrder == DoEbAnnotate \/ DoEbIterateAny \/ DoEbGather

SpecAnyOrder == Init /\ [][NextAnyOrder]_vars

----------------------------------------------------------------------------
(* shooting_data_collection.coords: a call and its return                  *)

\* The coordinates of the feed are percentages of the court; the inputs run
\* in steps of 2.5 from -5 to 2.5 * CoordSteps.
CoordSteps == 42

CoordValues == {R(5 * k, 2) : k \in (-2) .. CoordSteps}

\* A slip: only y negated beyond half-court, a mirror image.
coords_MirrorOnly(x, y) ==
    LET minX == R(-15, 2)
        maxX == R(15, 2)
        minY == RInt(-14)
        maxY == RInt(14)
        coord_x == RDiv(x, RInt(100))
        coord_y == RDiv(y, RInt(100))
        rot_x == RSub(Zero, RSub(coord_y, R(1, 2)))
        rot_y == RSub(coord_x, R(1, 2))
        final_x == RAdd(minX, RMul(RAdd(rot_x, R(1, 2)), RSub(maxX, minX)))
        final_y == RAdd(minY, RMul(RAdd(rot_y, R(1, 2)), RSub(maxY, minY)))
    IN  IF RLt(final_y, Zero)
        THEN <<final_x, RSub(Zero, final_y)>>
        ELSE <<final_x, final_y>>

coords(x, y) ==
    LET minX == R(-15, 2)
        maxX == R(15, 2)
        minY == RInt(-14)
        maxY == RInt(14)
        coord_x == RDiv(x, RInt(100))
        coord_y == RDiv(y, RInt(100))
        rot_x == RSub(Zero, RSub(coord_y, R(1, 2)))
        rot_y == RSub(coord_x, R(1, 2))
        final_x == RAdd(minX, RMul(RAdd(rot_x, R(1, 2)), RSub(maxX, minX)))
        final_y == RAdd(minY, RMul(RAdd(rot_y, R(1, 2)), RSub(maxY, minY)))
    IN  IF RLt(final_y, Zero)
        THEN <<RSub(Zero, final_x), RSub(Zero, final_y)>>
        ELSE <<final_x, final_y>>

InitCoords ==
    /\ pc = "coords_call"
    /\ \E x \in CoordValues : \E y \in CoordValues :
          loc = [x |-> x, y |-> y, result |-> <<NaN, NaN>>]
    /\ basket_coords = DefaultBasket
    /\ grid_data = <<>>
    /\ active_grids = <<>>
    /\ phi_values = <<>>
    /\ w_hat_values = <<>>
    /\ theta_values = <<>>
    /\ warned = FALSE

DoCoords ==
    /\ pc = "coords_call"
    /\ loc' = [loc EXCEPT !.result = coords(loc.x, loc.y)]
    /\ pc' = "coords_return"
    /\ UNCHANGED <<basket_coords, grid_data, active_grids, phi_values,
                   w_hat_values, theta_values, warned>>

NextCoords == DoCoords

SpecCoords == InitCoords /\ [][NextCoords]_vars

----------------------------------------------------------------------------
(* Vocabulary of the properties                                            *)

Rows == {grid_data[i] : i \in DOMAIN grid_data}

Attempted == {g \in Rows : g.attempts > 0}

\* An iteration of the loop has just run; Current is the row it was run for.
Processed == loc.branch # "none"

Current == CHOOSE g \in Rows : g.index = loc.idx

Neighbours == {loc.neighborhood[k] : k \in DOMAIN loc.neighborhood}

NeighbourIds == {g.index : g \in Neighbours}

InUnit(w) == IsFinite(w) /\ RLe(Zero, w) /\ RLe(w, One)

NonNegative(v) == IsFinite(v) /\ RLe(Zero, v)

Between(v, a, b) == IsFinite(v) /\ RLe(RMin(a, b), v) /\ RLe(v, RMax(a, b))

StrictlyBetween(v, a, b) == IsFinite(v) /\ RLt(RMin(a, b), v) /\ RLt(v, RMax(a, b))

RECURSIVE SetSum(_, _)
SetSum(S, col) ==
    IF S = {} THEN 0
    ELSE LET g == CHOOSE h \in S : TRUE
         IN  (IF col = "attempts" THEN g.attempts ELSE g.points)
                + SetSum(S \ {g}, col)

\* Pooled yield / attempts of a set of attempted cells.
Pooled(S) == R(SetSum(S, "points"), SetSum(S, "attempts"))

\* The radii as the specification states them, from the distance d of the
\* query cell alone.
band_radius(d) ==
    IF d < NEAR_THRESHOLD THEN RInt(BASE_BAND)
    ELSE R(BASE_BAND * 10000 + 1524 * (d - NEAR_THRESHOLD), 10000)

proximity_radius(d) ==
    IF d < NEAR_THRESHOLD THEN RInt(BASE_PROX)
    ELSE R(BASE_PROX * 10000 + 3048 * (d - NEAR_THRESHOLD), 10000)

Euclid(c, n) ==
    SqrtFix((n.x - c.x) * (n.x - c.x) + (n.y - c.y) * (n.y - c.y))

WithinRadius(len, radius) ==
    IF len.exact THEN RLe(RInt(len.q), radius) ELSE RLt(RInt(len.q), radius)

\* n qualifies as a neighbour of the query cell c.
Qualifies(c, n) ==
    /\ n.attempts > 0
    /\ RLe(RInt(Abs(n.dist_to_basket - c.dist_to_basket)),
           band_radius(c.dist_to_basket))
    /\ WithinRadius(Euclid(c, n), proximity_radius(c.dist_to_basket))

\* No other attempted cell passes both tests for c.
Isolated(c) == \A n \in Rows : n.index # c.index => ~Qualifies(c, n)

NormalLocalsUnset ==
    /\ loc.neighborhood = <<>>
    /\ loc.gamma_i = NaN /\ loc.n_bar_j = NaN
    /\ loc.numerator = NaN /\ loc.denominator = -1

----------------------------------------------------------------------------
(* C1 *)

\* C1: once do_eb has assembled its output, every cell without attempts has
\* CellVar = 0, ShrinkWt = 0 and EB_PPA = 0, whatever the other cells hold.
C1_ZeroAttemptCells ==
    pc = "done" =>
        \A g \in Rows : g.attempts = 0 =>
            g.CellVar = Zero /\ g.ShrinkWt = Zero /\ g.EB_PPA = Zero

C1_Witness ==
    /\ pc = "done"
    /\ \E g \in Rows : g.attempts = 0
    /\ \E g \in Rows : g.attempts > 0 /\ g.EB_PPA # Zero

----------------------------------------------------------------------------
(* C2 *)

\* C2: the shrinkage weight of every attempted cell lies in [0, 1]: the one
\* an iteration computes, every entry of w_hat_values, and the ShrinkWt
\* column of the output.
C2_WeightBounds ==
    /\ Processed => InUnit(loc.w_hat_i)
    /\ \A k \in DOMAIN w_hat_values : InUnit(w_hat_values[k])
    /\ pc = "done" => \A g \in Attempted : InUnit(g.ShrinkWt)

C2_Witness ==
    /\ pc = "done"
    /\ \E g \in Attempted : g.points = 0
    /\ \E g \in Attempted : g.points > 0
    /\ loc.branch = "normal" /\ Len(loc.neighborhood) >= 2

----------------------------------------------------------------------------
(* C3 *)

\* The method-of-moments expression of the iteration that has just run:
\* numerator / total_attempts - gamma / mean_attempts.
C3_Moments ==
    RSub(RDiv(loc.numerator, RInt(SetSum(Neighbours, "attempts"))),
         RDiv(Pooled(Neighbours),
              R(SetSum(Neighbours, "attempts"), Cardinality(Neighbours))))

\* C3: the variance component is never negative (in an iteration, in
\* phi_values, in the CellVar column), and it is 0 whenever the
\* method-of-moments expression is negative.
C3_VarianceNonNegative ==
    /\ Processed => NonNegative(loc.phi_i)
    /\ \A k \in DOMAIN phi_values : NonNegative(phi_values[k])
    /\ pc = "done" => \A g \in Rows : NonNegative(g.CellVar)
    /\ (loc.branch = "normal" /\ RLt(C3_Moments, Zero)) => loc.phi_i = Zero

C3_Witness ==
    /\ loc.branch = "normal"
    /\ RLt(C3_Moments, Zero)
    /\ loc.phi_i = Zero

----------------------------------------------------------------------------
(* C4 *)

----------------------------------------------------------------------------
(* C5 *)

\* C5: on the normal path the smoothed rate is w * raw_rate + (1 - w) * gamma,
\* gamma the pooled rate of the neighbourhood, and lies in the closed interval
\* between the raw rate of the cell and gamma.
C5_ConvexCombination ==
    loc.branch = "normal" =>
        /\ loc.theta_i =
              RAdd(RMul(loc.w_hat_i, Current.PPA),
                   RMul(RSub(One, loc.w_hat_i), Pooled(Neighbours)))
        /\ Between(loc.theta_i, Current.PPA, Pooled(Neighbours))

C5_Witness ==
    /\ loc.branch = "normal"
    /\ Cardinality(Neighbours) >= 2
    /\ Current.PPA # Pooled(Neighbours)
    /\ Pooled(Neighbours) # Zero

----------------------------------------------------------------------------
(* C6 *)

\* C6: the neighbourhood computed for a cell never contains the cell itself,
\* and the only attempted cell of a table takes the fallback.
C6_ExcludesSelf ==
    Processed =>
        /\ loc.idx \notin NeighbourIds
        /\ Cardinality(Attempted) = 1 => loc.branch = "fallback"

----------------------------------------------------------------------------
(* C7 *)

\* C7: for the cell c being processed and any other cell n, n is in the
\* neighbourhood of c iff n has attempts, its distance to the basket is
\* within the band radius of c's, and its centre is within the proximity
\* radius of c's centre, both radii taken from c's distance alone.
C7_NeighbourIff ==
    Processed =>
        \A n \in Rows : n.index # loc.idx =>
            (n.index \in NeighbourIds <=> Qualifies(Current, n))

C7_Witness ==
    /\ Processed
    /\ \E n \in Attempted : n.index # loc.idx /\ n.index \in NeighbourIds
    /\ \E n \in Attempted : n.index # loc.idx /\ n.index \notin NeighbourIds
    /\ Current.dist_to_basket > NEAR_THRESHOLD

----------------------------------------------------------------------------
(* C8 *)

\* C8: with a cell c1 nearer than 9.144 in the table, the radii computed for
\* a cell c2 farther than 9.144 are strictly greater than 0.3658 and 1.524.
C8_RadiiGrow ==
    (/\ Processed
     /\ Current.dist_to_basket > NEAR_THRESHOLD
     /\ \E c1 \in Rows : c1.dist_to_basket < NEAR_THRESHOLD) =>
        /\ RLt(RInt(BASE_BAND), loc.equidistant_range)
        /\ RLt(RInt(BASE_PROX), loc.close_range)

C8_Witness ==
    /\ Processed
    /\ Current.dist_to_basket > NEAR_THRESHOLD
    /\ \E c1 \in Attempted : c1.dist_to_basket < NEAR_THRESHOLD

----------------------------------------------------------------------------
(* C9 *)

IsScenarioA ==
    /\ basket_coords = <<0, 0>>
    /\ \A i \in DOMAIN grid_data :
          /\ grid_data[i].attempts = ScenarioA[i].attempts
          /\ grid_data[i].points = ScenarioA[i].points
          /\ grid_data[i].left = ScenarioA[i].left
          /\ grid_data[i].bottom = ScenarioA[i].bottom

\* Cells A and B of the scenario, and the one of the two that is not c.
ScenarioAB == {g \in Rows : g.index \in {0, 1}}

OtherOfAB == 1 - loc.idx

\* C9 as stated: in scenario A, A and B are in each other's neighbourhood and
\* the smoothed rate of each is strictly between its raw rate and the
\* regional rate of {A, B}.
C9_StrictlyBetween ==
    (IsScenarioA /\ Processed /\ loc.idx \in {0, 1}) =>
        /\ OtherOfAB \in NeighbourIds
        /\ StrictlyBetween(loc.theta_i, Current.PPA, Pooled(ScenarioAB))

\* C9 amended: in scenario A, A and B are in each other's neighbourhood and
\* the smoothed rate of each equals the regional rate of {A, B}, 25/18.
C9_RegionalRate ==
    (IsScenarioA /\ Processed /\ loc.idx \in {0, 1}) =>
        /\ OtherOfAB \in NeighbourIds
        /\ loc.theta_i = Pooled(ScenarioAB)
        /\ loc.theta_i = R(25, 18)

C9_Witness ==
    /\ IsScenarioA
    /\ loc.idx = 1
    /\ loc.branch = "normal"
    /\ theta_values = << R(25, 18), R(25, 18) >>

----------------------------------------------------------------------------
(* C10 *)

\* C10: an attempted cell for which no other attempted cell passes both the
\* band and the proximity test ends with a smoothed rate exactly equal to
\* its raw rate, in its iteration and in the EB_PPA column of the output.
C10_IsolatedKeepsRaw ==
    /\ (Processed /\ Isolated(Current)) => loc.theta_i = Current.PPA
    /\ pc = "done" =>
          \A g \in Attempted : Isolated(g) => g.EB_PPA = g.PPA

C10_Witness ==
    /\ pc = "done"
    /\ \E g \in Attempted :
          /\ Isolated(g)
          /\ g.PPA # Zero
          /\ g.EB_PPA = g.PPA
          /\ \E n \in Attempted : n.index # g.index /\ n.PPA # g.PPA

----------------------------------------------------------------------------
(* C11 *)

HasOutputs(g) ==
    IsFinite(g.CellVar) /\ IsFinite(g.ShrinkWt) /\ IsFinite(g.EB_PPA)

\* The guard of one of the three steps holds.
CanStep ==
    \/ pc = "start"
    \/ pc = "loop" /\ Len(phi_values) < Len(active_grids)
    \/ pc = "loop" /\ Len(phi_values) = Len(active_grids)

----------------------------------------------------------------------------
(* C12 *)

InputColumns(g) ==
    <<g.index, g.left, g.right, g.bottom, g.top, g.attempts, g.points, g.PPA>>

\* C12: no step of do_eb reorders, deletes, duplicates or merges rows: the
\* table keeps its length, and every row keeps its place and its input
\* columns; only derived columns are added.
C12_RowsKept ==
    [][/\ Len(grid_data') = Len(grid_data)
       /\ \A i \in DOMAIN grid_data :
             /\ InputColumns(grid_data'[i]) = InputColumns(grid_data[i])
             /\ DOMAIN grid_data[i] \subseteq DOMAIN grid_data'[i]]_vars

C12_Witness ==
    /\ pc = "done"
    /\ Len(grid_data) = 3
    /\ grid_data[1].attempts > 0
    /\ grid_data[2].attempts = 0
    /\ grid_data[3].attempts > 0
    /\ \A i \in DOMAIN grid_data : grid_data[i].index = i - 1

----------------------------------------------------------------------------
(* C13 *)

\* A row with its read-only columns alone.
InputsOnly(g) ==
    [index |-> g.index, left |-> g.left, right |-> g.right,
     bottom |-> g.bottom, top |-> g.top, attempts |-> g.attempts,
     points |-> g.points, PPA |-> g.PPA, x |-> g.x, y |-> g.y,
     dist_to_basket |-> g.dist_to_basket]

\* The three values of cell c as the loop run in table order computes them:
\* from the read-only columns of the active cells.
FromInputs(c) ==
    LET gdf   == [k \in DOMAIN active_grids |-> InputsOnly(active_grids[k])]
        nb    == get_neighborhood_params(InputsOnly(c), gdf)
        gamma == gamma_i(nb)
        phi   == phi_i(nb)
        w     == w_hat_i(phi, gamma, c.attempts)
    IN  <<phi, w, theta_i(w, c.PPA, gamma)>>

\* C13: with the iterations of the loop taken in any order, the values
\* stored for a cell are those computed from the read-only columns alone,
\* whichever cells were processed before it, and so is the output.
C13_OrderIndependent ==
    /\ \A k \in DOMAIN active_grids :
          HasResult(active_grids[k]) =>
              <<active_grids[k].CellVar, active_grids[k].ShrinkWt,
                active_grids[k].EB_PPA>> = FromInputs(active_grids[k])
    /\ pc = "done" =>
          \A g \in Attempted :
              \E k \in DOMAIN active_grids :
                  /\ active_grids[k].index = g.index
                  /\ <<g.CellVar, g.ShrinkWt, g.EB_PPA>> = FromInputs(active_grids[k])

\* The first row of the table was processed last, after a neighbour of it
\* that had received a smoothed rate different from its raw rate.
C13_Witness ==
    /\ pc = "done"
    /\ Len(active_grids) = 3
    /\ loc.idx = active_grids[1].index
    /\ \E g \in Neighbours :
          /\ g.index # loc.idx
          /\ HasResult(g)
          /\ g.EB_PPA # g.PPA

----------------------------------------------------------------------------
(* C14 *)

AllFinite(values) == \A k \in DOMAIN values : IsFinite(values[k])

\* C14: in an iteration that computes the statistics, every divisor is
\* non-zero where its division is evaluated (total_shots, each neighbour's
\* attempts, n_bar_j, denominator, n_i, and phi_i + gamma_i / n_i whenever
\* the weight is a quotient), every value the iteration computes is finite,
\* and so is every entry of the lists and every value of the output.
C14_DivisionsGuarded ==
    /\ loc.branch = "normal" =>
          /\ SetSum(Neighbours, "attempts") # 0
          /\ \A g \in Neighbours : g.attempts # 0
          /\ loc.denominator # 0
          /\ IsFinite(loc.n_bar_j) /\ loc.n_bar_j # Zero
          /\ Current.attempts # 0
          /\ RAdd(loc.phi_i, RDiv(loc.gamma_i, RInt(Current.attempts))) = Zero
                => loc.w_hat_i = Zero
          /\ IsFinite(loc.gamma_i) /\ IsFinite(loc.numerator)
          /\ IsFinite(loc.phi_i) /\ IsFinite(loc.w_hat_i) /\ IsFinite(loc.theta_i)
    /\ AllFinite(phi_values) /\ AllFinite(w_hat_values) /\ AllFinite(theta_values)
    /\ pc = "done" =>
          \A g \in Rows :
              IsFinite(g.CellVar) /\ IsFinite(g.ShrinkWt) /\ IsFinite(g.EB_PPA)

\* The iteration in which phi_i + gamma_i / n_i is 0, so that only the
\* guard keeps the weight from being 0 / 0.
C14_Witness ==
    /\ loc.branch = "normal"
    /\ loc.gamma_i = Zero /\ loc.phi_i = Zero
    /\ Len(loc.neighborhood) >= 2
    /\ pc = "done"

----------------------------------------------------------------------------
(* C15 *)

\* Distances around the threshold, 0 and twice the threshold.
C15_Distances ==
    ((NEAR_THRESHOLD - 1) .. (NEAR_THRESHOLD + 1)) \cup {0, 2 * NEAR_THRESHOLD}

\* A radius as a whole number of ten-thousandths of a distance unit; every
\* radius is one, the slopes having four decimals.
TenThousandths(r) ==
    IF IsFinite(r) /\ 10000 % r[2] = 0 THEN r[1] * (10000 \div r[2]) ELSE -1

\* The radii at distance d are those of the two formulas.
C15_AsStated(d) ==
    /\ TenThousandths(equidistant_range(d)) > 0
    /\ TenThousandths(close_range(d)) > 0
    /\ d < NEAR_THRESHOLD =>
          /\ equidistant_range(d) = R(3658, 1)
          /\ close_range(d) = R(15240, 1)
    /\ d >= NEAR_THRESHOLD =>
          /\ equidistant_range(d) =
                RAdd(R(3658, 1), RMul(R(1524, 10000), RInt(d - 91440)))
          /\ close_range(d) =
                RAdd(R(15240, 1), RMul(R(3048, 10000), RInt(d - 91440)))

\* The radii at d1 are not above those at d2.
C15_NotAbove(d1, d2) ==
    /\ TenThousandths(equidistant_range(d1)) <= TenThousandths(equidistant_range(d2))
    /\ TenThousandths(close_range(d1)) <= TenThousandths(close_range(d2))

\* C15: below 9.144 the radii are 0.3658 and 1.524; from 9.144 on they are
\* 0.3658 + 0.1524 * (d - 9.144) and 1.524 + 0.3048 * (d - 9.144); they take
\* the base values at 9.144 itself and never decrease with d.  Stated for the
\* radii every iteration has computed for its cell, against the other cells
\* of the table, and at the start of a run for distances around the
\* threshold.
C15_Radii ==
    /\ Processed =>
          /\ loc.equidistant_range = band_radius(Current.dist_to_basket)
          /\ loc.close_range = proximity_radius(Current.dist_to_basket)
          /\ loc.equidistant_range = equidistant_range(Current.dist_to_basket)
          /\ loc.close_range = close_range(Current.dist_to_basket)
          /\ C15_AsStated(Current.dist_to_basket)
          /\ \A g \in Rows :
                g.dist_to_basket <= Current.dist_to_basket =>
                    C15_NotAbove(g.dist_to_basket, Current.dist_to_basket)
    /\ pc = "start" =>
          /\ \A d \in C15_Distances : C15_AsStated(d)
          /\ equidistant_range(NEAR_THRESHOLD) = equidistant_range(NEAR_THRESHOLD - 1)
          /\ close_range(NEAR_THRESHOLD) = close_range(NEAR_THRESHOLD - 1)
          /\ C15_NotAbove(0, NEAR_THRESHOLD - 1)
          /\ C15_NotAbove(NEAR_THRESHOLD - 1, NEAR_THRESHOLD)
          /\ C15_NotAbove(NEAR_THRESHOLD, NEAR_THRESHOLD + 1)
          /\ C15_NotAbove(NEAR_THRESHOLD + 1, 2 * NEAR_THRESHOLD)

\* Cells on both sides of the threshold have been processed; the last one
\* lies beyond it.
C15_Witness ==
    /\ pc = "done"
    /\ Len(active_grids) = 3
    /\ active_grids[1].dist_to_basket < NEAR_THRESHOLD
    /\ Current.dist_to_basket > NEAR_THRESHOLD
    /\ loc.close_range = proximity_radius(Current.dist_to_basket)
    /\ RLt(RInt(BASE_PROX), loc.close_range)

----------------------------------------------------------------------------
(* C16 *)

\* The attempted cells that pass both tests for c, c itself among them.
Qualifying(c) == {n \in Attempted : Qualifies(c, n)}

\* C16: in every iteration with a non-empty neighbourhood of non-negative
\* yields the variance numerator is 0, the variance 0, the weight 0 and the
\* smoothed rate the pooled rate of the neighbourhood; the output carries
\* these values for every attempted cell.
C16_Degenerate ==
    /\ (loc.branch = "normal" /\ \A g \in Neighbours : g.points >= 0) =>
          /\ loc.numerator = Zero
          /\ loc.phi_i = Zero
          /\ loc.w_hat_i = Zero
          /\ loc.theta_i = loc.gamma_i
          /\ loc.gamma_i = Pooled(Neighbours)
    /\ (pc = "done" /\ \A g \in Rows : g.points >= 0) =>
          \A g \in Attempted :
              /\ g.CellVar = Zero
              /\ g.ShrinkWt = Zero
              /\ g.EB_PPA = Pooled(Qualifying(g))

\* Neighbours of different raw rates: the smoothed rate of the cell is not
\* its raw rate.
C16_Witness ==
    /\ loc.branch = "normal"
    /\ Cardinality(Neighbours) >= 2
    /\ \E g, h \in Neighbours : g.PPA # h.PPA
    /\ Current.points > 0
    /\ loc.theta_i # Current.PPA
    /\ loc.theta_i # Zero

----------------------------------------------------------------------------
(* C17 *)

\* The lists in every state of a run.
C17_Positions ==
    /\ Len(phi_values) = Len(theta_values)
    /\ Len(w_hat_values) = Len(theta_values)
    /\ Len(theta_values) <= Len(active_grids)
    /\ Processed =>
          /\ Len(theta_values) >= 1
          /\ active_grids[Len(theta_values)].index = loc.idx
          /\ phi_values[Len(theta_values)] = loc.phi_i
          /\ w_hat_values[Len(theta_values)] = loc.w_hat_i
          /\ theta_values[Len(theta_values)] = loc.theta_i
    /\ pc = "done" =>
          /\ Len(theta_values) = Len(active_grids)
          /\ \A k \in DOMAIN active_grids :
                /\ active_grids[k].CellVar = phi_values[k]
                /\ active_grids[k].ShrinkWt = w_hat_values[k]
                /\ active_grids[k].EB_PPA = theta_values[k]
                /\ \E g \in Rows :
                      /\ g.index = active_grids[k].index
                      /\ g.CellVar = phi_values[k]
                      /\ g.ShrinkWt = w_hat_values[k]
                      /\ g.EB_PPA = theta_values[k]

\* The lists from one state to the next: the entries stay where they are.
C17_EntriesStay ==
    /\ Len(theta_values') \in {Len(theta_values), Len(theta_values) + 1}
    /\ \A k \in DOMAIN theta_values :
          /\ phi_values'[k] = phi_values[k]
          /\ w_hat_values'[k] = w_hat_values[k]
          /\ theta_values'[k] = theta_values[k]
    /\ \A k \in DOMAIN active_grids :
          pc = "loop" => active_grids'[k].index = active_grids[k].index

\* C17: the three lists always have the same length, at most the number of
\* attempted cells; the iteration that has just run was run for the cell at
\* the position of the last entries, which are its values; no step moves or
\* changes an entry or a row of active_grids, so entry k stays that of the
\* k-th attempted cell; and after the positional assignment every attempted
\* cell holds the entries of its own position, in active_grids and in the
\* output.
C17_ListsAligned == []C17_Positions /\ [][C17_EntriesStay]_vars

\* Two of three attempted cells processed, with different smoothed rates.
C17_Witness ==
    /\ pc = "loop"
    /\ Len(active_grids) = 3
    /\ Len(theta_values) = 2
    /\ theta_values[1] # theta_values[2]

----------------------------------------------------------------------------
(* C18 *)

YieldsInRange == \A g \in Rows : 0 <= g.points /\ g.points <= 3 * g.attempts

InSaneRange(v) == IsFinite(v) /\ RLe(Zero, v) /\ RLe(v, RInt(3))

\* C18: when every cell has 0 <= points <= 3 * attempts, every smoothed rate
\* lies in [0, 3], in the lists and in the output, and neither the warning
\* about invalid points nor the note about a smoothed rate out of range is
\* printed.
C18_SaneRange ==
    YieldsInRange =>
        /\ \A k \in DOMAIN theta_values : InSaneRange(theta_values[k])
        /\ Processed => InSaneRange(loc.theta_i) /\ ~loc.note
        /\ ~warned
        /\ pc = "done" => \A g \in Rows : InSaneRange(g.EB_PPA)

\* A cell whose neighbourhood made nothing but three-pointers, next to one
\* with a smoothed rate below 3.
C18_Witness ==
    /\ YieldsInRange
    /\ pc = "done"
    /\ \E g \in Attempted : g.EB_PPA = RInt(3)
    /\ \E g \in Attempted : RLt(Zero, g.EB_PPA) /\ RLt(g.EB_PPA, RInt(3))

----------------------------------------------------------------------------
(* C19 *)

\* n is in the neighbourhood get_neighborhood_params returns for c: the
\* function keeps or drops each row of the frame on its own.
InNeighbourhood(c, n) == get_neighborhood_params(c, <<n>>) # <<>>

ActiveNear ==
    {active_grids[k] : k \in {j \in DOMAIN active_grids :
                                 active_grids[j].dist_to_basket < NEAR_THRESHOLD}}

\* C19: between two attempted cells that both lie nearer than 9.144, n is in
\* the neighbourhood of c exactly when c is in the neighbourhood of n.
\* Stated for every iteration: c is its cell and the neighbourhood of c the
\* one it has computed.
C19_SymmetricNear ==
    (Processed /\ Current.dist_to_basket < NEAR_THRESHOLD) =>
        \A n \in ActiveNear :
            n.index \in NeighbourIds <=> InNeighbourhood(n, Current)

\* Near cells of both kinds: a pair of mutual neighbours, and a pair that
\* fails the band test in both directions.
C19_Witness ==
    /\ pc = "loop"
    /\ \E c, n \in ActiveNear :
          c.index # n.index /\ InNeighbourhood(c, n) /\ InNeighbourhood(n, c)
    /\ \E c, n \in ActiveNear :
          /\ ~InNeighbourhood(c, n) /\ ~InNeighbourhood(n, c)
          /\ ~InBand(c, n) /\ InReach(c, n)

----------------------------------------------------------------------------
(* C20 *)

\* The rotated and scaled point before the test on its y:
\* (7.5 - 0.15 * y, 0.28 * x - 14).
Rotated(x, y) ==
    <<RSub(R(15, 2), RMul(R(15, 100), y)), RSub(RMul(R(28, 100), x), RInt(14))>>

====
